---- MODULE Spec2Model ----
(***************************************************************************)
(* State-machine model of the endpoint scanners of this repository:        *)
(*   "probe"  the semaphore-guarded scan            (part_001, 1-137)      *)
(*   "comp"   the comprehensive semaphore scan      (part_001, 139-287)    *)
(*   "pool"   the worker-pool scan                  (part_002, 143-351)    *)
(*   "scan"   the ping + port scan                  (scan.go)              *)
(*   "ips"    scanIPs, the sequential scan          (part_003, 61-89)      *)
(* Each goroutine is a record in gs with its own program counter; the      *)
(* network is the environment: every dial, write, read and ping picks its  *)
(* outcome nondeterministically.                                           *)
(***************************************************************************)
EXTENDS Integers, Sequences, FiniteSets, TLC

\* ------------------------------------------------------------ bounds
\* addresses sampled per subnet by the semaphore-guarded scan (20 in the source)
ProbeSamples == 1
\* addresses sampled per subnet by the generator checked alone (50 in the source)
GenSamples == 4
\* addresses sampled per subnet by the worker-pool scan (50 in the source)
PoolSamples == 2
\* capacity of the guard channel (100 and 200 in the sources)
concurrencyLimit == 1
\* workers of the pool (20 in the source)
numWorkers == 2
\* capacity of the comprehensive scan's results channel (100 in the source)
ResultsCap == 1
\* number of pinged addresses that are port-scanned (30 in the source)
scanLimitMax == 1
\* number of distinct addresses scanIPs probes (30 in the source)
ipCount == 2
\* length of the "Top 10" listings (10 in the sources, 5 in scanIPs)
topLimit == 1

\* ------------------------------------------------------------ configuration
\* the subnets sampled (7 in the sources; "188.114.98." is the seed's subnet)
Subnets == <<"188.114.98.">>
\* the values rand.Intn(256) is drawn from in the model
OctetSeq == <<223, 224>>
Octets == {OctetSeq[k] : k \in DOMAIN OctetSeq}
\* the timeout of probeEndpoint's dial and the deadline of its read, 2 s, in
\* time units
Timeout == 2
\* durations a dial, a read or a ping can take: each ends within its timeout
Latencies == 1..Timeout
\* addresses sampled per subnet by the ping + port scan (5 in the source): one
\* more than the scan limit at its smallest, so that the limit cuts the list
ScanSamples == Len(OctetSeq)

\* the values rand.Intn(256) is drawn from in randomIPv4
BlockOctets == <<1, 2, 3, 4>>

\* fmt.Sprintf("%s%d", subnet, octet): an address is the pair it was built from
Sprintf(subnet, octet) == <<subnet, octet>>
\* net.JoinHostPort(ip, port)
JoinHostPort(ip, port) == <<ip, port>>
\* allIPs = append(allIPs, "188.114.98.224")
SeedIP == Sprintf("188.114.98.", 224)

PingResult(ip, rtt) == [IP |-> ip, RTT |-> rtt]

EndpointResult(endpoint, latency, protocol) ==
    [Endpoint |-> endpoint, Latency |-> latency, Protocol |-> protocol]

ScanJob(ip, port, protocol) == [IP |-> ip, Port |-> port, Protocol |-> protocol]

\* ------------------------------------------------------------ sequences
Range(s) == {s[k] : k \in DOMAIN s}

RECURSIVE Flatten(_)
Flatten(ss) == IF ss = <<>> THEN <<>> ELSE Head(ss) \o Flatten(Tail(ss))

\* [f(x) for x in s], concatenated
SeqMap(Op(_), s) == [k \in DOMAIN s |-> Op(s[k])]

Count(P(_), s) == Cardinality({k \in DOMAIN s : P(s[k])})

\* ------------------------------------------------------------ generator
\* generateIPv4Addresses without de-duplication: for each subnet, `samples'
\* addresses with a random last octet, in subnet order
generateIPv4Addresses(samples) ==
    { [k \in 1..(Len(Subnets) * samples) |->
          Sprintf(Subnets[((k - 1) \div samples) + 1], o[k])] :
      o \in [1..(Len(Subnets) * samples) -> Octets] }

\* a generator that returns its samples as they are
KeepDuplicates(ips, ipMap) == ips

\* the "Remove duplicates" loop: keep the first occurrence of each address
RECURSIVE RemoveDuplicates(_, _)
RemoveDuplicates(ips, ipMap) ==
    IF ips = <<>> THEN <<>>
    ELSE IF Head(ips) \in ipMap THEN RemoveDuplicates(Tail(ips), ipMap)
    ELSE <<Head(ips)>> \o RemoveDuplicates(Tail(ips), ipMap \cup {Head(ips)})

\* the comprehensive scan's ipsToScan: every address of every subnet, in order
ipsToScan ==
    Flatten([s \in DOMAIN Subnets |-> [o \in DOMAIN OctetSeq |-> Sprintf(Subnets[s], OctetSeq[o])]])

\* generateIPv4Addresses of the worker-pool scan
generateUniqueIPv4Addresses(samples) ==
    { RemoveDuplicates(ips, {}) : ips \in generateIPv4Addresses(samples) }

\* randomIPv4: a random block and a random last octet; the set of its values
randomIPv4 == { Sprintf(Subnets[b], BlockOctets[o]) : b \in DOMAIN Subnets, o \in DOMAIN BlockOctets }

\* the generators scanIPs may be given: gen func() string, by the set of
\* values it returns
Generators == SUBSET randomIPv4 \ {{}}

\* ------------------------------------------------------------ ranker
\* sort.Slice(s, less by latency): the result is s reordered so that latency
\* never decreases; the order of equal elements is unspecified (sort.Slice is
\* not stable), so every such order is an outcome
\* the sort key of the less functions: RTT of a PingResult, Latency (Ping) of
\* an EndpointResult
Key(x) == IF "RTT" \in DOMAIN x THEN x.RTT ELSE x.Latency

Inserts(x, s) ==
    \* all ways to put x into the sorted sequence s keeping it sorted
    { SubSeq(s, 1, p) \o <<x>> \o SubSeq(s, p + 1, Len(s)) :
        p \in { q \in 0..Len(s) :
                  /\ \A k \in 1..q : Key(s[k]) <= Key(x)
                  /\ \A k \in (q + 1)..Len(s) : Key(x) <= Key(s[k]) } }

\* a sort.Slice that leaves its argument as it is
sortSliceNone(s) == { s }

RECURSIVE sortSlice(_)
sortSlice(s) ==
    IF s = <<>> THEN { <<>> }
    ELSE UNION { Inserts(s[Len(s)], t) : t \in sortSlice(SubSeq(s, 1, Len(s) - 1)) }

\* ------------------------------------------------------------ reporting
\* s[i] of Go, i counted from 0: an index outside the slice panics
Index(s, i) ==
    IF i + 1 \in DOMAIN s THEN [status |-> "ok", value |-> <<s[i + 1]>>]
    ELSE [status |-> "panic", value |-> <<>>]

\* nothing reported yet
Unset == [status |-> "unset", value |-> <<>>]

\* the report when no endpoint of a protocol was found
NoneFound == [status |-> "none found", value |-> <<>>]

\* a slice that is not empty, indexed at 0, without a test of its length
BestUnchecked(s) == Index(s, 0)

\* if len(s) > 0 { best := s[0]; ... } else { "No ... found" }
Best(s) == IF Len(s) > 0 THEN Index(s, 0) ELSE NoneFound

\* the top loop without its break
RECURSIVE TopLoopAll(_, _, _)
TopLoopAll(s, i, n) ==
    IF i >= Len(s) THEN <<>> ELSE <<Index(s, i)>> \o TopLoopAll(s, i + 1, n)

\* for i, result := range s { if i >= n { break }; print result }, from
\* iteration i on
RECURSIVE TopLoop(_, _, _)
TopLoop(s, i, n) ==
    IF i >= Len(s) THEN <<>>
    ELSE IF i >= n THEN <<>>
    ELSE <<Index(s, i)>> \o TopLoop(s, i + 1, n)

\* ------------------------------------------------------------ state
VARIABLES
    prog,             \* which program runs: "probe", "comp", "pool", "scan" or "ips"
    sampled,          \* generateIPv4Addresses: ips, the sampled addresses before de-duplication
    gen,              \* scanIPs: the values its generator gen() can return
    unique,           \* scanIPs: the keys of the map unique
    results,          \* scanIPs: the slice results
    genIP,            \* scanIPs: ip, the address of the current iteration
    pinged,           \* history: the addresses scanIPs passed to tcpPing, in order
    config,           \* main's configuration: the concurrency limit and the port list
    pc,               \* position of main
    allIPs,           \* ips / ipsToScan / allIPs
    allJobs,          \* the candidates in the order main submits them
    idx,              \* number of candidates main has submitted so far
    guard,            \* number of tokens in the guard channel
    wg,               \* counter of wg / portWg
    pingWg,           \* counter of pingWg
    gs,               \* the goroutines spawned so far, in spawn order
    resultsChan,      \* content of resultsChan / endpointResultsChan / results
    closed,           \* close(resultsChan) has happened
    jobsClosed,       \* close(jobs) has happened
    collector,        \* the worker-pool's collector goroutine
    collectorWg,      \* counter of collectorWg
    progressCounter,  \* the comprehensive scan's progress counter
    pingResultsChan,  \* content of pingResultsChan
    bestIPs,          \* the ping results main collected
    tcpResults,
    udpResults,
    bestEndpoint,     \* per protocol: the best endpoint reported, or that none was found
    topN,             \* per protocol: the lines of the top listing
    outcome,          \* history: the last network result of each candidate's probe
    dials,            \* history: number of dials made for each submitted candidate
    discovered        \* history: the results per protocol in the order main received them

vars == <<prog, config, sampled, gen, unique, results, genIP, pinged, pc, allIPs, allJobs, idx, guard, wg, pingWg, gs, resultsChan, closed,
          jobsClosed, collector, collectorWg, progressCounter, pingResultsChan,
          bestIPs, tcpResults, udpResults, bestEndpoint, topN, outcome, dials,
          discovered>>

\* everything but main's position and the named variables stays as it is
scanIPsVars == <<gen, unique, results, genIP, pinged>>
localVars == <<sampled, scanIPsVars>>
mainVars == <<allIPs, allJobs, idx>>
chanVars == <<resultsChan, closed, jobsClosed>>
poolVars == <<collector, collectorWg>>
pingVars == <<pingWg, pingResultsChan, bestIPs>>
resultVars == <<tcpResults, udpResults, discovered>>
reportVars == <<bestEndpoint, topN>>
histVars == <<outcome, dials>>

Programs == {"probe", "comp", "pool", "scan"}

\* concurrencyLimit := 100 / 200; numWorkers := 20
Limit(p) == IF p = "pool" THEN numWorkers ELSE concurrencyLimit

\* portsToScan / tcpPorts: one port of each list
Ports(p) == IF p = "pool" THEN <<8886>> ELSE IF p = "scan" THEN <<443>> ELSE <<2408>>

\* the configurations of a run: the one of the source, and for the programs
\* with a concurrency limit the ones with that limit at zero or with no port
Configs(p) ==
    IF p = "scan" THEN { [limit |-> Limit(p), ports |-> Ports(p)] }
    ELSE { [limit |-> l, ports |-> q] : l \in {0, Limit(p)}, q \in {<<>>, Ports(p)} }

Init ==
    /\ prog \in Programs
    /\ config \in Configs(prog)
    /\ pc = "gen"
    /\ sampled = <<>>
    /\ gen = {}
    /\ unique = {}
    /\ results = <<>>
    /\ genIP = <<>>
    /\ pinged = <<>>
    /\ allIPs = <<>>
    /\ allJobs = <<>>
    /\ idx = 0
    /\ guard = 0
    /\ wg = 0
    /\ pingWg = 0
    /\ gs = <<>>
    /\ resultsChan = <<>>
    /\ closed = FALSE
    /\ jobsClosed = FALSE
    /\ collector = [pc |-> "none", result |-> <<>>]
    /\ collectorWg = 0
    /\ progressCounter = 0
    /\ pingResultsChan = <<>>
    /\ bestIPs = <<>>
    /\ tcpResults = <<>>
    /\ udpResults = <<>>
    /\ bestEndpoint = [tcp |-> Unset, udp |-> Unset]
    /\ topN = [tcp |-> <<>>, udp |-> <<>>]
    /\ outcome = <<>>
    /\ dials = <<>>
    /\ discovered = [tcp |-> <<>>, udp |-> <<>>]

\* a goroutine that has just been started for candidate j; rtt is the time its
\* handshake took, from just before the write to just after the read, which
\* the code does not measure, and in a ping goroutine the rtt of its ping
Goroutine(j, at) == [pc |-> at, job |-> j, lat |-> 0, rtt |-> 0, conn |-> "none"]

\* the nested loops "for protocol / for ip / for port": the candidates in
\* submission order
Candidates(protocols, ips, ports) ==
    Flatten([p \in DOMAIN protocols |->
        Flatten([i \in DOMAIN ips |->
            [q \in DOMAIN ports |-> ScanJob(ips[i], ports[q], protocols[p])]])])

Endpoint(job) == JoinHostPort(job.IP, job.Port)

\* ------------------------------------------------------------ semaphore scans
SemProg == prog \in {"probe", "comp"}

\* ips := generateIPv4Addresses() and the loop nest of main ("probe");
\* ipsToScan = every address of every subnet ("comp")
SemGenerate ==
    /\ SemProg /\ pc = "gen"
    /\ \E ips \in (IF prog = "probe" THEN generateIPv4Addresses(ProbeSamples)
                   ELSE { ipsToScan }) :
         /\ allIPs' = ips
         /\ allJobs' = Candidates(IF prog = "probe" THEN <<"udp", "tcp">> ELSE <<"tcp", "udp">>,
                                  ips, config.ports)
    /\ outcome' = [k \in DOMAIN allJobs' |-> "none"]
    /\ dials' = [k \in DOMAIN allJobs' |-> 0]
    /\ pc' = "spawn"
    /\ UNCHANGED <<prog, config, localVars, reportVars, idx, guard, wg, gs, chanVars, poolVars, progressCounter,
                   pingVars, resultVars>>

\* a results channel of the fixed capacity in every semaphore scan
ResultsCapacityFixed == ResultsCap

\* capacity of resultsChan: one slot per candidate ("probe"), or fixed ("comp")
ResultsCapacity == IF prog = "comp" THEN ResultsCap ELSE Len(allJobs)

\* SemSpawn without the send to guard: the goroutine starts at once
SemSpawnUnguarded ==
    /\ SemProg /\ pc = "spawn"
    /\ idx < Len(allJobs)
    /\ wg' = wg + 1
    /\ guard' = guard
    /\ idx' = idx + 1
    /\ gs' = Append(gs, Goroutine(idx + 1, "dial"))
    /\ pc' = IF idx' = Len(allJobs) THEN "wait" ELSE "spawn"
    /\ UNCHANGED <<prog, config, localVars, reportVars, allIPs, allJobs, chanVars, poolVars, progressCounter,
                   pingVars, resultVars, histVars>>

\* one iteration of the loop nest: wg.Add(1); guard <- struct{}{}; go func...;
\* after the last iteration main is at wg.Wait()
SemSpawn ==
    /\ SemProg /\ pc = "spawn"
    /\ idx < Len(allJobs)
    /\ guard < config.limit
    /\ wg' = wg + 1
    /\ guard' = guard + 1
    /\ idx' = idx + 1
    /\ gs' = Append(gs, Goroutine(idx + 1, "dial"))
    /\ pc' = IF idx' = Len(allJobs) THEN "wait" ELSE "spawn"
    /\ UNCHANGED <<prog, config, localVars, reportVars, allIPs, allJobs, chanVars, poolVars, progressCounter,
                   pingVars, resultVars, histVars>>

\* a loop nest without candidates is over at once
SemSpawnEnd ==
    /\ SemProg /\ pc = "spawn"
    /\ idx = Len(allJobs)
    /\ pc' = "wait"
    /\ UNCHANGED <<prog, config, localVars, reportVars, mainVars, guard, wg, gs, chanVars, poolVars, progressCounter,
                   pingVars, resultVars, histVars>>

\* atomic.AddUint64(counter, 1): only the comprehensive scan counts
Counted == IF prog = "comp" THEN progressCounter + 1 ELSE progressCounter

\* ProbeDialErr without atomic.AddUint64(counter, 1)
ProbeDialErrUncounted(g) ==
    /\ SemProg /\ g \in DOMAIN gs /\ gs[g].pc = "dial"
    /\ dials' = [dials EXCEPT ![gs[g].job] = @ + 1]
    /\ outcome' = [outcome EXCEPT ![gs[g].job] = "dialerr"]
    /\ gs' = [gs EXCEPT ![g].pc = "wgdone"]
    /\ UNCHANGED <<prog, config, localVars, reportVars, pc, mainVars, guard, wg, chanVars, poolVars,
                   progressCounter, pingVars, resultVars>>

\* probeEndpoint: conn, err := net.DialTimeout(protocol, endpoint, 2s)
ProbeDialErr(g) ==
    /\ SemProg /\ g \in DOMAIN gs /\ gs[g].pc = "dial"
    /\ dials' = [dials EXCEPT ![gs[g].job] = @ + 1]
    /\ outcome' = [outcome EXCEPT ![gs[g].job] = "dialerr"]
    /\ progressCounter' = Counted
    /\ gs' = [gs EXCEPT ![g].pc = "wgdone"]
    /\ UNCHANGED <<prog, config, localVars, reportVars, pc, mainVars, guard, wg, chanVars, poolVars, pingVars, resultVars>>

ProbeDialOk(g) ==
    /\ SemProg /\ g \in DOMAIN gs /\ gs[g].pc = "dial"
    /\ dials' = [dials EXCEPT ![gs[g].job] = @ + 1]
    /\ outcome' = [outcome EXCEPT ![gs[g].job] = "connected"]
    /\ \E ping \in Latencies :
         gs' = [gs EXCEPT ![g] = [@ EXCEPT
                   !.pc = IF allJobs[gs[g].job].Protocol = "udp" THEN "write" ELSE "send",
                   !.lat = ping, !.conn = "open"]]
    /\ UNCHANGED <<prog, config, localVars, reportVars, pc, mainVars, guard, wg, chanVars, poolVars, progressCounter,
                   pingVars, resultVars>>

\* ProbeWriteErr that returns without the deferred conn.Close()
ProbeWriteErrLeaks(g) ==
    /\ SemProg /\ g \in DOMAIN gs /\ gs[g].pc = "write"
    /\ outcome' = [outcome EXCEPT ![gs[g].job] = "writeerr"]
    /\ progressCounter' = Counted
    /\ gs' = [gs EXCEPT ![g].pc = "wgdone"]
    /\ UNCHANGED <<prog, config, localVars, reportVars, pc, mainVars, guard, wg, chanVars, poolVars, pingVars,
                   resultVars, dials>>

\* _, err = conn.Write(handshakePacket)
ProbeWriteErr(g) ==
    /\ SemProg /\ g \in DOMAIN gs /\ gs[g].pc = "write"
    /\ outcome' = [outcome EXCEPT ![gs[g].job] = "writeerr"]
    /\ progressCounter' = Counted
    /\ gs' = [gs EXCEPT ![g].pc = "connclose"]
    /\ UNCHANGED <<prog, config, localVars, reportVars, pc, mainVars, guard, wg, chanVars, poolVars, pingVars, resultVars, dials>>

ProbeWriteOk(g) ==
    /\ SemProg /\ g \in DOMAIN gs /\ gs[g].pc = "write"
    /\ outcome' = [outcome EXCEPT ![gs[g].job] = "written"]
    /\ gs' = [gs EXCEPT ![g].pc = "read"]
    /\ UNCHANGED <<prog, config, localVars, reportVars, pc, mainVars, guard, wg, chanVars, poolVars, progressCounter,
                   pingVars, resultVars, dials>>

\* ProbeReadErr without the return: the probe goes on to send its result
ProbeReadErrSends(g) ==
    /\ SemProg /\ g \in DOMAIN gs /\ gs[g].pc = "read"
    /\ outcome' = [outcome EXCEPT ![gs[g].job] = "readerr"]
    /\ progressCounter' = Counted
    /\ gs' = [gs EXCEPT ![g].pc = "send"]
    /\ UNCHANGED <<prog, config, localVars, reportVars, pc, mainVars, guard, wg, chanVars, poolVars, pingVars, resultVars, dials>>

\* conn.SetReadDeadline(now + 2s); _, err = conn.Read(buffer): an error or the timeout
ProbeReadErr(g) ==
    /\ SemProg /\ g \in DOMAIN gs /\ gs[g].pc = "read"
    /\ outcome' = [outcome EXCEPT ![gs[g].job] = "readerr"]
    /\ progressCounter' = Counted
    /\ gs' = [gs EXCEPT ![g].pc = "connclose"]
    /\ UNCHANGED <<prog, config, localVars, reportVars, pc, mainVars, guard, wg, chanVars, poolVars, pingVars, resultVars, dials>>

ProbeReadOk(g) ==
    /\ SemProg /\ g \in DOMAIN gs /\ gs[g].pc = "read"
    /\ outcome' = [outcome EXCEPT ![gs[g].job] = "answered"]
    /\ \E t \in Latencies : gs' = [gs EXCEPT ![g] = [@ EXCEPT !.pc = "send", !.rtt = t]]
    /\ UNCHANGED <<prog, config, localVars, reportVars, pc, mainVars, guard, wg, chanVars, poolVars, progressCounter,
                   pingVars, resultVars, dials>>

\* resultsChan <- EndpointResult{endpoint, ping, protocol}: blocks while the
\* channel is full
ProbeSend(g) ==
    /\ SemProg /\ g \in DOMAIN gs /\ gs[g].pc = "send"
    /\ ~closed
    /\ Len(resultsChan) < ResultsCapacity
    /\ resultsChan' = Append(resultsChan,
           EndpointResult(Endpoint(allJobs[gs[g].job]), gs[g].lat, allJobs[gs[g].job].Protocol))
    /\ progressCounter' = Counted
    /\ gs' = [gs EXCEPT ![g] = [@ EXCEPT !.pc = "connclose", !.lat = 0, !.rtt = 0]]
    /\ UNCHANGED <<prog, config, localVars, reportVars, pc, mainVars, guard, wg, closed, jobsClosed, poolVars, pingVars,
                   resultVars, histVars>>

\* deferred conn.Close()
ProbeConnClose(g) ==
    /\ SemProg /\ g \in DOMAIN gs /\ gs[g].pc = "connclose"
    /\ gs' = [gs EXCEPT ![g] = [@ EXCEPT !.pc = "wgdone", !.conn = "closed"]]
    /\ UNCHANGED <<prog, config, localVars, reportVars, pc, mainVars, guard, wg, chanVars, poolVars, progressCounter,
                   pingVars, resultVars, histVars>>

\* deferred wg.Done(): probeEndpoint returns
ProbeWgDone(g) ==
    /\ SemProg /\ g \in DOMAIN gs /\ gs[g].pc = "wgdone"
    /\ wg' = wg - 1
    /\ gs' = [gs EXCEPT ![g].pc = "release"]
    /\ UNCHANGED <<prog, config, localVars, reportVars, pc, mainVars, guard, chanVars, poolVars, progressCounter,
                   pingVars, resultVars, histVars>>

\* <-guard
SemRelease(g) ==
    /\ SemProg /\ g \in DOMAIN gs /\ gs[g].pc = "release"
    /\ guard > 0
    /\ guard' = guard - 1
    /\ gs' = [gs EXCEPT ![g] = Goroutine(gs[g].job, "exit")]
    /\ UNCHANGED <<prog, config, localVars, reportVars, pc, mainVars, wg, chanVars, poolVars, progressCounter,
                   pingVars, resultVars, histVars>>

\* SemWait that does not wait for the counter to reach zero
SemWaitNoBarrier ==
    /\ SemProg /\ pc = "wait"
    /\ pc' = "close"
    /\ UNCHANGED <<prog, config, localVars, reportVars, mainVars, guard, wg, gs, chanVars, poolVars, progressCounter,
                   pingVars, resultVars, histVars>>

\* wg.Wait()
SemWait ==
    /\ SemProg /\ pc = "wait"
    /\ wg = 0
    /\ pc' = "close"
    /\ UNCHANGED <<prog, config, localVars, reportVars, mainVars, guard, wg, gs, chanVars, poolVars, progressCounter,
                   pingVars, resultVars, histVars>>

\* close(resultsChan)
SemClose ==
    /\ SemProg /\ pc = "close"
    /\ closed' = TRUE
    /\ pc' = "aggregate"
    /\ UNCHANGED <<prog, config, localVars, reportVars, mainVars, guard, wg, gs, resultsChan, jobsClosed, poolVars,
                   progressCounter, pingVars, resultVars, histVars>>

\* the elements of s with the given protocol, in order
RECURSIVE OfProtocol(_, _)
OfProtocol(s, udp) ==
    IF s = <<>> THEN <<>>
    ELSE (IF (Head(s).Protocol = "udp") = udp THEN <<Head(s)>> ELSE <<>>)
         \o OfProtocol(Tail(s), udp)

\* for result := range resultsChan: udp results to udpResults, all others to
\* tcpResults; the loop ends when the closed channel is empty
SemAggregate ==
    /\ SemProg /\ pc = "aggregate"
    /\ closed
    /\ udpResults' = udpResults \o OfProtocol(resultsChan, TRUE)
    /\ tcpResults' = tcpResults \o OfProtocol(resultsChan, FALSE)
    /\ discovered' = [tcp |-> tcpResults', udp |-> udpResults']
    /\ resultsChan' = <<>>
    /\ pc' = "sortudp"
    /\ UNCHANGED <<prog, config, localVars, reportVars, mainVars, guard, wg, gs, closed, jobsClosed, poolVars,
                   progressCounter, pingVars, histVars>>

\* sort.Slice(udpResults, ...)
SemSortUDP ==
    /\ SemProg /\ pc = "sortudp"
    /\ udpResults' \in sortSlice(udpResults)
    /\ pc' = "sorttcp"
    /\ UNCHANGED <<prog, config, localVars, reportVars, mainVars, guard, wg, gs, chanVars, poolVars, progressCounter,
                   pingVars, tcpResults, discovered, histVars>>

\* sort.Slice(tcpResults, ...)
SemSortTCP ==
    /\ SemProg /\ pc = "sorttcp"
    /\ tcpResults' \in sortSlice(tcpResults)
    /\ pc' = "report"
    /\ UNCHANGED <<prog, config, localVars, reportVars, mainVars, guard, wg, gs, chanVars, poolVars, progressCounter,
                   pingVars, udpResults, discovered, histVars>>

\* if len(udpResults) > 0 { bestUDP := udpResults[0]; ... } else { ... } and the
\* same for tcpResults
SemReport ==
    /\ SemProg /\ pc = "report"
    /\ bestEndpoint' = [udp |-> Best(udpResults), tcp |-> Best(tcpResults)]
    /\ pc' = "done"
    /\ UNCHANGED <<prog, config, localVars, topN, mainVars, guard, wg, gs, chanVars, poolVars, progressCounter,
                   pingVars, resultVars, histVars>>

NextSem ==
    \/ SemGenerate
    \/ SemSpawn
    \/ SemSpawnEnd
    \/ \E g \in DOMAIN gs : ProbeDialErr(g)
    \/ \E g \in DOMAIN gs : ProbeDialOk(g)
    \/ \E g \in DOMAIN gs : ProbeWriteErr(g)
    \/ \E g \in DOMAIN gs : ProbeWriteOk(g)
    \/ \E g \in DOMAIN gs : ProbeReadErr(g)
    \/ \E g \in DOMAIN gs : ProbeReadOk(g)
    \/ \E g \in DOMAIN gs : ProbeSend(g)
    \/ \E g \in DOMAIN gs : ProbeConnClose(g)
    \/ \E g \in DOMAIN gs : ProbeWgDone(g)
    \/ \E g \in DOMAIN gs : SemRelease(g)
    \/ SemWait
    \/ SemClose
    \/ SemAggregate
    \/ SemSortUDP
    \/ SemSortTCP
    \/ SemReport

\* ------------------------------------------------------------ worker-pool scan
\* allIPs := generateIPv4Addresses(); allIPs = append(allIPs, "188.114.98.224")
PoolGenerate ==
    /\ prog = "pool" /\ pc = "gen"
    /\ \E ips \in generateUniqueIPv4Addresses(PoolSamples) : allIPs' = Append(ips, SeedIP)
    /\ pc' = "start"
    /\ UNCHANGED <<prog, config, localVars, reportVars, allJobs, idx, guard, wg, gs, chanVars, poolVars, progressCounter,
                   pingVars, resultVars, histVars>>

\* main starts numWorkers workers and the collector, and builds allJobs: one
\* tcp job on port 8886 per address, in the order of allIPs
PoolStart ==
    /\ prog = "pool" /\ pc = "start"
    /\ wg' = wg + config.limit
    /\ gs' = [w \in 1..config.limit |-> Goroutine(0, "recv")]
    /\ collectorWg' = collectorWg + 1
    /\ collector' = [pc |-> "recv", result |-> <<>>]
    /\ allJobs' = Candidates(<<"tcp">>, allIPs, config.ports)
    /\ outcome' = [k \in DOMAIN allJobs' |-> "none"]
    /\ dials' = [k \in DOMAIN allJobs' |-> 0]
    /\ pc' = "feed"
    /\ UNCHANGED <<prog, config, localVars, reportVars, allIPs, idx, guard, chanVars, progressCounter, pingVars, resultVars>>

\* jobs <- job meets a worker's "for job := range jobs": jobs is unbuffered,
\* so the send and the receive are one step
PoolFeed(w) ==
    /\ prog = "pool" /\ pc = "feed"
    /\ idx < Len(allJobs)
    /\ w \in DOMAIN gs /\ gs[w].pc = "recv"
    /\ ~jobsClosed
    /\ idx' = idx + 1
    /\ gs' = [gs EXCEPT ![w] = Goroutine(idx + 1, "dial")]
    /\ UNCHANGED <<prog, config, localVars, reportVars, pc, allIPs, allJobs, guard, wg, chanVars, poolVars, progressCounter,
                   pingVars, resultVars, histVars>>

\* the end of the feed loop without close(jobs)
PoolNoCloseJobs ==
    /\ prog = "pool" /\ pc = "feed"
    /\ idx = Len(allJobs)
    /\ pc' = "wait"
    /\ UNCHANGED <<prog, config, localVars, reportVars, mainVars, guard, wg, gs, chanVars, poolVars,
                   progressCounter, pingVars, resultVars, histVars>>

\* close(jobs)
PoolCloseJobs ==
    /\ prog = "pool" /\ pc = "feed"
    /\ idx = Len(allJobs)
    /\ jobsClosed' = TRUE
    /\ pc' = "wait"
    /\ UNCHANGED <<prog, config, localVars, reportVars, mainVars, guard, wg, gs, resultsChan, closed, poolVars,
                   progressCounter, pingVars, resultVars, histVars>>

\* the range over the closed jobs channel ends
WorkerJobsClosed(w) ==
    /\ prog = "pool" /\ w \in DOMAIN gs /\ gs[w].pc = "recv"
    /\ jobsClosed
    /\ gs' = [gs EXCEPT ![w].pc = "wgdone"]
    /\ UNCHANGED <<prog, config, localVars, reportVars, pc, mainVars, guard, wg, chanVars, poolVars, progressCounter,
                   pingVars, resultVars, histVars>>

\* WorkerDialErr with the test of err left out: the failed dial is reported
WorkerDialErrSends(w) ==
    /\ prog = "pool" /\ w \in DOMAIN gs /\ gs[w].pc = "dial"
    /\ dials' = [dials EXCEPT ![gs[w].job] = @ + 1]
    /\ outcome' = [outcome EXCEPT ![gs[w].job] = "dialerr"]
    /\ gs' = [gs EXCEPT ![w].pc = "send"]
    /\ UNCHANGED <<prog, config, localVars, reportVars, pc, mainVars, guard, wg, chanVars, poolVars, progressCounter,
                   pingVars, resultVars>>

\* conn, err := net.DialTimeout(job.Protocol, address, job.Timeout): err != nil
WorkerDialErr(w) ==
    /\ prog = "pool" /\ w \in DOMAIN gs /\ gs[w].pc = "dial"
    /\ dials' = [dials EXCEPT ![gs[w].job] = @ + 1]
    /\ outcome' = [outcome EXCEPT ![gs[w].job] = "dialerr"]
    /\ gs' = [gs EXCEPT ![w] = Goroutine(0, "recv")]
    /\ UNCHANGED <<prog, config, localVars, reportVars, pc, mainVars, guard, wg, chanVars, poolVars, progressCounter,
                   pingVars, resultVars>>

WorkerDialOk(w) ==
    /\ prog = "pool" /\ w \in DOMAIN gs /\ gs[w].pc = "dial"
    /\ dials' = [dials EXCEPT ![gs[w].job] = @ + 1]
    /\ outcome' = [outcome EXCEPT ![gs[w].job] = "connected"]
    /\ \E latency \in Latencies :
         gs' = [gs EXCEPT ![w] = [@ EXCEPT !.pc = "connclose", !.lat = latency, !.conn = "open"]]
    /\ UNCHANGED <<prog, config, localVars, reportVars, pc, mainVars, guard, wg, chanVars, poolVars, progressCounter,
                   pingVars, resultVars>>

\* conn.Close()
WorkerConnClose(w) ==
    /\ prog = "pool" /\ w \in DOMAIN gs /\ gs[w].pc = "connclose"
    /\ gs' = [gs EXCEPT ![w] = [@ EXCEPT !.pc = "send", !.conn = "closed"]]
    /\ UNCHANGED <<prog, config, localVars, reportVars, pc, mainVars, guard, wg, chanVars, poolVars, progressCounter,
                   pingVars, resultVars, histVars>>

\* results <- EndpointResult{...} meets the collector's "for result := range
\* results": results is unbuffered
WorkerSend(w) ==
    /\ prog = "pool" /\ w \in DOMAIN gs /\ gs[w].pc = "send"
    /\ ~closed
    /\ collector.pc = "recv"
    /\ collector' = [pc |-> "append",
                     result |-> EndpointResult(Endpoint(allJobs[gs[w].job]), gs[w].lat,
                                               allJobs[gs[w].job].Protocol)]
    /\ gs' = [gs EXCEPT ![w] = Goroutine(0, "recv")]
    /\ UNCHANGED <<prog, config, localVars, reportVars, pc, mainVars, guard, wg, chanVars, collectorWg, progressCounter,
                   pingVars, resultVars, histVars>>

\* deferred wg.Done(): worker returns
WorkerWgDone(w) ==
    /\ prog = "pool" /\ w \in DOMAIN gs /\ gs[w].pc = "wgdone"
    /\ wg' = wg - 1
    /\ gs' = [gs EXCEPT ![w].pc = "exit"]
    /\ UNCHANGED <<prog, config, localVars, reportVars, pc, mainVars, guard, chanVars, poolVars, progressCounter,
                   pingVars, resultVars, histVars>>

\* the collector's loop body: tcp results to tcpResults, all others to udpResults
CollectorAppend ==
    /\ prog = "pool" /\ collector.pc = "append"
    /\ IF collector.result.Protocol = "tcp"
       THEN /\ tcpResults' = Append(tcpResults, collector.result)
            /\ udpResults' = udpResults
       ELSE /\ udpResults' = Append(udpResults, collector.result)
            /\ tcpResults' = tcpResults
    /\ discovered' = [tcp |-> tcpResults', udp |-> udpResults']
    /\ collector' = [pc |-> "recv", result |-> <<>>]
    /\ UNCHANGED <<prog, config, localVars, reportVars, pc, mainVars, guard, wg, gs, chanVars, collectorWg,
                   progressCounter, pingVars, histVars>>

\* the range over the closed results channel ends; deferred collectorWg.Done()
CollectorExit ==
    /\ prog = "pool" /\ collector.pc = "recv"
    /\ closed
    /\ collectorWg' = collectorWg - 1
    /\ collector' = [pc |-> "exit", result |-> <<>>]
    /\ UNCHANGED <<prog, config, localVars, reportVars, pc, mainVars, guard, wg, gs, chanVars, progressCounter,
                   pingVars, resultVars, histVars>>

\* PoolWait that does not wait for the workers
PoolWaitNoBarrier ==
    /\ prog = "pool" /\ pc = "wait"
    /\ pc' = "close"
    /\ UNCHANGED <<prog, config, localVars, reportVars, mainVars, guard, wg, gs, chanVars, poolVars,
                   progressCounter, pingVars, resultVars, histVars>>

\* wg.Wait()
PoolWait ==
    /\ prog = "pool" /\ pc = "wait"
    /\ wg = 0
    /\ pc' = "close"
    /\ UNCHANGED <<prog, config, localVars, reportVars, mainVars, guard, wg, gs, chanVars, poolVars, progressCounter,
                   pingVars, resultVars, histVars>>

\* close(results)
PoolClose ==
    /\ prog = "pool" /\ pc = "close"
    /\ closed' = TRUE
    /\ pc' = "collectorwait"
    /\ UNCHANGED <<prog, config, localVars, reportVars, mainVars, guard, wg, gs, resultsChan, jobsClosed, poolVars,
                   progressCounter, pingVars, resultVars, histVars>>

\* PoolCollectorWait that does not wait for the collector
PoolCollectorNoWait ==
    /\ prog = "pool" /\ pc = "collectorwait"
    /\ pc' = "check"
    /\ UNCHANGED <<prog, config, localVars, reportVars, mainVars, guard, wg, gs, chanVars, poolVars, progressCounter,
                   pingVars, resultVars, histVars>>

\* collectorWg.Wait()
PoolCollectorWait ==
    /\ prog = "pool" /\ pc = "collectorwait"
    /\ collectorWg = 0
    /\ pc' = "check"
    /\ UNCHANGED <<prog, config, localVars, reportVars, mainVars, guard, wg, gs, chanVars, poolVars, progressCounter,
                   pingVars, resultVars, histVars>>

\* ------------------------------------------------------------ ping + port scan
\* allIPs := the generated addresses; one goroutine per address runs
\* pingWithTermux (pingWg.Add(1); go func...)
ScanGenerate ==
    /\ prog = "scan" /\ pc = "gen"
    /\ allIPs' \in generateIPv4Addresses(ScanSamples)
    /\ pingWg' = pingWg + Len(allIPs')
    /\ gs' = [k \in DOMAIN allIPs' |-> Goroutine(k, "ping")]
    /\ pc' = "pingwait"
    /\ UNCHANGED <<prog, config, localVars, reportVars, allJobs, idx, guard, wg, chanVars, poolVars, progressCounter,
                   pingResultsChan, bestIPs, resultVars, histVars>>

\* rtt, err := pingWithTermux(ipAddr): err != nil
PingErr(g) ==
    /\ prog = "scan" /\ g \in DOMAIN gs /\ gs[g].pc = "ping"
    /\ gs' = [gs EXCEPT ![g].pc = "pingdone"]
    /\ UNCHANGED <<prog, config, localVars, reportVars, pc, mainVars, guard, wg, chanVars, poolVars, progressCounter,
                   pingVars, resultVars, histVars>>

\* err == nil: pingResultsChan <- PingResult{ipAddr, rtt}
PingOk(g) ==
    /\ prog = "scan" /\ g \in DOMAIN gs /\ gs[g].pc = "ping"
    /\ Len(pingResultsChan) < Len(allIPs)
    /\ \E rtt \in Latencies :
         /\ pingResultsChan' = Append(pingResultsChan, PingResult(allIPs[gs[g].job], rtt))
         /\ gs' = [gs EXCEPT ![g] = [@ EXCEPT !.pc = "pingdone", !.rtt = rtt]]
    /\ UNCHANGED <<prog, config, localVars, reportVars, pc, mainVars, guard, wg, chanVars, poolVars, progressCounter,
                   pingWg, bestIPs, resultVars, histVars>>

\* deferred pingWg.Done()
PingDone(g) ==
    /\ prog = "scan" /\ g \in DOMAIN gs /\ gs[g].pc = "pingdone"
    /\ pingWg' = pingWg - 1
    /\ gs' = [gs EXCEPT ![g].pc = "exit"]
    /\ UNCHANGED <<prog, config, localVars, reportVars, pc, mainVars, guard, wg, chanVars, poolVars, progressCounter,
                   pingResultsChan, bestIPs, resultVars, histVars>>

\* the collection of the ping results without pingWg.Wait()
ScanPingNoWait ==
    /\ prog = "scan" /\ pc = "pingwait"
    /\ bestIPs' = pingResultsChan
    /\ pingResultsChan' = <<>>
    /\ pc' = "pingcheck"
    /\ UNCHANGED <<prog, config, localVars, reportVars, mainVars, guard, wg, gs, chanVars, poolVars, progressCounter,
                   pingWg, resultVars, histVars>>

\* pingWg.Wait(); close(pingResultsChan); bestIPs = everything in the channel
ScanPingWait ==
    /\ prog = "scan" /\ pc = "pingwait"
    /\ pingWg = 0
    /\ bestIPs' = pingResultsChan
    /\ pingResultsChan' = <<>>
    /\ pc' = "pingcheck"
    /\ UNCHANGED <<prog, config, localVars, reportVars, mainVars, guard, wg, gs, chanVars, poolVars, progressCounter,
                   pingWg, resultVars, histVars>>

\* if len(bestIPs) == 0 { ...; return }
ScanNoIPs ==
    /\ prog = "scan" /\ pc = "pingcheck"
    /\ bestIPs = <<>>
    /\ bestEndpoint' = [tcp |-> NoneFound, udp |-> NoneFound]
    /\ pc' = "done"
    /\ UNCHANGED <<prog, config, localVars, topN, mainVars, guard, wg, gs, chanVars, poolVars, progressCounter,
                   pingVars, resultVars, histVars>>

\* scanLimit := 30; if len(bestIPs) < scanLimit { scanLimit = len(bestIPs) }
scanLimit(ips) == IF Len(ips) < scanLimitMax THEN Len(ips) ELSE scanLimitMax

\* for ip in bestIPs[:scanLimit], for port: scanPort tcp, scanPort udp
PortJobs(ips, ports) ==
    Flatten([i \in 1..scanLimit(ips) |->
        Flatten([q \in DOMAIN ports |->
            <<ScanJob(ips[i].IP, ports[q], "tcp"), ScanJob(ips[i].IP, ports[q], "udp")>>])])

\* sort.Slice(bestIPs, by RTT); the candidates of the port scan
ScanPrepare ==
    /\ prog = "scan" /\ pc = "pingcheck"
    /\ bestIPs # <<>>
    /\ bestIPs' \in sortSlice(bestIPs)
    /\ allJobs' = PortJobs(bestIPs', config.ports)
    /\ outcome' = [k \in DOMAIN allJobs' |-> "none"]
    /\ dials' = [k \in DOMAIN allJobs' |-> 0]
    /\ pc' = "spawn"
    /\ UNCHANGED <<prog, config, localVars, reportVars, allIPs, idx, guard, wg, gs, chanVars, poolVars, progressCounter,
                   pingWg, pingResultsChan, resultVars>>

\* one iteration of the port loop: portWg.Add(2); go scanPort(tcp); go
\* scanPort(udp); after the last iteration main is at portWg.Wait()
ScanSpawn ==
    /\ prog = "scan" /\ pc = "spawn"
    /\ idx < Len(allJobs)
    /\ wg' = wg + 2
    /\ gs' = gs \o <<Goroutine(idx + 1, "dial"), Goroutine(idx + 2, "dial")>>
    /\ idx' = idx + 2
    /\ pc' = IF idx' = Len(allJobs) THEN "wait" ELSE "spawn"
    /\ UNCHANGED <<prog, config, localVars, reportVars, allIPs, allJobs, guard, chanVars, poolVars, progressCounter,
                   pingVars, resultVars, histVars>>

\* scanPort: conn, err := net.DialTimeout(protocol, address, timeout): err != nil
ScanDialErr(g) ==
    /\ prog = "scan" /\ g \in DOMAIN gs /\ gs[g].pc = "dial"
    /\ dials' = [dials EXCEPT ![gs[g].job] = @ + 1]
    /\ outcome' = [outcome EXCEPT ![gs[g].job] = "dialerr"]
    /\ gs' = [gs EXCEPT ![g].pc = "wgdone"]
    /\ UNCHANGED <<prog, config, localVars, reportVars, pc, mainVars, guard, wg, chanVars, poolVars, progressCounter,
                   pingVars, resultVars>>

ScanDialOk(g) ==
    \* err == nil: latency := time.Since(start); conn.Close()
    /\ prog = "scan" /\ g \in DOMAIN gs /\ gs[g].pc = "dial"
    /\ dials' = [dials EXCEPT ![gs[g].job] = @ + 1]
    /\ outcome' = [outcome EXCEPT ![gs[g].job] = "connected"]
    /\ \E latency \in Latencies :
         gs' = [gs EXCEPT ![g] = [@ EXCEPT !.pc = "send", !.lat = latency, !.conn = "closed"]]
    /\ UNCHANGED <<prog, config, localVars, reportVars, pc, mainVars, guard, wg, chanVars, poolVars, progressCounter,
                   pingVars, resultVars>>

\* capacity of endpointResultsChan: len(bestIPs) * len(portsToScan) * 2
EndpointResultsCapacity == Len(bestIPs) * Len(config.ports) * 2

\* resultsChan <- EndpointResult{address, latency, protocol}
ScanSend(g) ==
    /\ prog = "scan" /\ g \in DOMAIN gs /\ gs[g].pc = "send"
    /\ ~closed
    /\ Len(resultsChan) < EndpointResultsCapacity
    /\ resultsChan' = Append(resultsChan,
           EndpointResult(Endpoint(allJobs[gs[g].job]), gs[g].lat, allJobs[gs[g].job].Protocol))
    /\ gs' = [gs EXCEPT ![g] = [@ EXCEPT !.pc = "wgdone", !.lat = 0]]
    /\ UNCHANGED <<prog, config, localVars, reportVars, pc, mainVars, guard, wg, closed, jobsClosed, poolVars,
                   progressCounter, pingVars, resultVars, histVars>>

\* deferred wg.Done(): scanPort returns
ScanWgDone(g) ==
    /\ prog = "scan" /\ g \in DOMAIN gs /\ gs[g].pc = "wgdone"
    /\ wg' = wg - 1
    /\ gs' = [gs EXCEPT ![g] = Goroutine(gs[g].job, "exit")]
    /\ UNCHANGED <<prog, config, localVars, reportVars, pc, mainVars, guard, chanVars, poolVars, progressCounter,
                   pingVars, resultVars, histVars>>

\* portWg.Wait()
ScanWait ==
    /\ prog = "scan" /\ pc = "wait"
    /\ wg = 0
    /\ pc' = "close"
    /\ UNCHANGED <<prog, config, localVars, reportVars, mainVars, guard, wg, gs, chanVars, poolVars, progressCounter,
                   pingVars, resultVars, histVars>>

\* close(endpointResultsChan)
ScanClose ==
    /\ prog = "scan" /\ pc = "close"
    /\ closed' = TRUE
    /\ pc' = "aggregate"
    /\ UNCHANGED <<prog, config, localVars, reportVars, mainVars, guard, wg, gs, resultsChan, jobsClosed, poolVars,
                   progressCounter, pingVars, resultVars, histVars>>

\* an aggregation loop without the test of result.Protocol: everything goes
\* to tcpResults
OfTCPAll(s, tcp) == IF tcp THEN s ELSE <<>>

\* the elements of s that are (tcp = TRUE) or are not (tcp = FALSE) tcp results
RECURSIVE OfTCP(_, _)
OfTCP(s, tcp) ==
    IF s = <<>> THEN <<>>
    ELSE (IF (Head(s).Protocol = "tcp") = tcp THEN <<Head(s)>> ELSE <<>>)
         \o OfTCP(Tail(s), tcp)

\* for result := range endpointResultsChan: tcp results to tcpResults, all
\* others to udpResults
ScanAggregate ==
    /\ prog = "scan" /\ pc = "aggregate"
    /\ closed
    /\ tcpResults' = tcpResults \o OfTCP(resultsChan, TRUE)
    /\ udpResults' = udpResults \o OfTCP(resultsChan, FALSE)
    /\ discovered' = [tcp |-> tcpResults', udp |-> udpResults']
    /\ resultsChan' = <<>>
    /\ pc' = "check"
    /\ UNCHANGED <<prog, config, localVars, reportVars, mainVars, guard, wg, gs, closed, jobsClosed, poolVars,
                   progressCounter, pingVars, histVars>>

NextScan ==
    \/ ScanGenerate
    \/ \E g \in DOMAIN gs : PingErr(g)
    \/ \E g \in DOMAIN gs : PingOk(g)
    \/ \E g \in DOMAIN gs : PingDone(g)
    \/ \E g \in DOMAIN gs : ScanDialErr(g)
    \/ \E g \in DOMAIN gs : ScanDialOk(g)
    \/ \E g \in DOMAIN gs : ScanSend(g)
    \/ \E g \in DOMAIN gs : ScanWgDone(g)
    \/ ScanPingWait
    \/ ScanNoIPs
    \/ ScanPrepare
    \/ ScanSpawn
    \/ ScanWait
    \/ ScanClose
    \/ ScanAggregate

\* ------------------------------------------------------------ ranking (pool, scan)
RankProg == prog \in {"pool", "scan"}

\* if len(tcpResults) == 0 && len(udpResults) == 0 { ...; return }
RankNothing ==
    /\ RankProg /\ pc = "check"
    /\ tcpResults = <<>> /\ udpResults = <<>>
    /\ bestEndpoint' = [tcp |-> NoneFound, udp |-> NoneFound]
    /\ pc' = "done"
    /\ UNCHANGED <<prog, config, localVars, topN, mainVars, guard, wg, gs, chanVars, poolVars, progressCounter,
                   pingVars, resultVars, histVars>>

\* if len(tcpResults) > 0 { sort.Slice(tcpResults, ...); bestEndpoint :=
\* tcpResults[0]; top loop } else { "No open TCP endpoints found" }
RankTCP ==
    /\ RankProg /\ pc = "check"
    /\ ~(tcpResults = <<>> /\ udpResults = <<>>)
    /\ tcpResults' \in (IF Len(tcpResults) > 0 THEN sortSlice(tcpResults) ELSE {tcpResults})
    /\ bestEndpoint' = [bestEndpoint EXCEPT !.tcp = Best(tcpResults')]
    /\ topN' = [topN EXCEPT !.tcp = TopLoop(tcpResults', 0, topLimit)]
    /\ pc' = "rankudp"
    /\ UNCHANGED <<prog, config, localVars, mainVars, guard, wg, gs, chanVars, poolVars, progressCounter,
                   pingVars, udpResults, discovered, histVars>>

\* if len(udpResults) > 0 { sort.Slice(udpResults, ...); bestEndpoint :=
\* udpResults[0]; top loop } else { "No open UDP endpoints found" }
RankUDP ==
    /\ RankProg /\ pc = "rankudp"
    /\ udpResults' \in (IF Len(udpResults) > 0 THEN sortSlice(udpResults) ELSE {udpResults})
    /\ bestEndpoint' = [bestEndpoint EXCEPT !.udp = Best(udpResults')]
    /\ topN' = [topN EXCEPT !.udp = TopLoop(udpResults', 0, topLimit)]
    /\ pc' = "done"
    /\ UNCHANGED <<prog, config, localVars, mainVars, guard, wg, gs, chanVars, poolVars, progressCounter,
                   pingVars, tcpResults, discovered, histVars>>

NextPool ==
    \/ PoolGenerate
    \/ PoolStart
    \/ PoolCloseJobs
    \/ \E w \in DOMAIN gs : PoolFeed(w)
    \/ \E w \in DOMAIN gs : WorkerJobsClosed(w)
    \/ \E w \in DOMAIN gs : WorkerDialErr(w)
    \/ \E w \in DOMAIN gs : WorkerDialOk(w)
    \/ \E w \in DOMAIN gs : WorkerConnClose(w)
    \/ \E w \in DOMAIN gs : WorkerSend(w)
    \/ \E w \in DOMAIN gs : WorkerWgDone(w)
    \/ CollectorAppend
    \/ CollectorExit
    \/ PoolWait
    \/ PoolClose
    \/ PoolCollectorWait

NextRank ==
    \/ RankNothing
    \/ RankTCP
    \/ RankUDP

Next == NextSem \/ NextPool \/ NextScan \/ NextRank

Spec == Init /\ [][Next]_vars

\* the worker-pool scan alone, with the scheduler's guarantee that a goroutine
\* that can run does run
PoolInit == Init /\ prog = "pool"

PoolNext == NextPool \/ NextRank

PoolFairSpec == PoolInit /\ [][PoolNext]_vars /\ WF_vars(PoolNext)

\* generateIPv4Addresses of the worker-pool scan alone, on GenSamples samples
\* per subnet: the sampling loop, then the "Remove duplicates" loop and the
\* return of uniqueIPs (kept in allIPs)
GenSample ==
    /\ prog = "pool" /\ pc = "gen"
    /\ sampled' \in generateIPv4Addresses(GenSamples)
    /\ pc' = "dedup"
    /\ UNCHANGED <<prog, config, scanIPsVars, allIPs, allJobs, idx, guard, wg, gs, chanVars, poolVars,
                   progressCounter, pingVars, resultVars, reportVars, histVars>>

GenDedup ==
    /\ prog = "pool" /\ pc = "dedup"
    /\ allIPs' = RemoveDuplicates(sampled, {})
    /\ pc' = "return"
    /\ UNCHANGED <<prog, config, localVars, allJobs, idx, guard, wg, gs, chanVars, poolVars,
                   progressCounter, pingVars, resultVars, reportVars, histVars>>

GenNext == GenSample \/ GenDedup

GeneratorSpec == PoolInit /\ [][GenNext]_vars

\* ------------------------------------------------------------ scanIPs
\* the state of the other programs, which scanIPs leaves alone
scannerVars == <<sampled, allIPs, allJobs, idx, guard, wg, gs, chanVars, poolVars, progressCounter,
                 pingVars, resultVars, bestEndpoint, histVars>>

\* scanIPs(gen, label) has been called: unique := map[string]bool{}; var results
ScanIPsInit ==
    /\ prog = "ips"
    /\ config = [limit |-> 0, ports |-> <<2408>>]
    /\ pc = "loop"
    /\ sampled = <<>>
    /\ gen \in Generators
    /\ unique = {}
    /\ results = <<>>
    /\ genIP = <<>>
    /\ pinged = <<>>
    /\ allIPs = <<>>
    /\ allJobs = <<>>
    /\ idx = 0
    /\ guard = 0
    /\ wg = 0
    /\ pingWg = 0
    /\ gs = <<>>
    /\ resultsChan = <<>>
    /\ closed = FALSE
    /\ jobsClosed = FALSE
    /\ collector = [pc |-> "none", result |-> <<>>]
    /\ collectorWg = 0
    /\ progressCounter = 0
    /\ pingResultsChan = <<>>
    /\ bestIPs = <<>>
    /\ tcpResults = <<>>
    /\ udpResults = <<>>
    /\ bestEndpoint = [tcp |-> Unset, udp |-> Unset]
    /\ topN = [tcp |-> <<>>, udp |-> <<>>]
    /\ outcome = <<>>
    /\ dials = <<>>
    /\ discovered = [tcp |-> <<>>, udp |-> <<>>]

\* for len(unique) < ipCount { ip := gen()
ScanIPsGen ==
    /\ prog = "ips" /\ pc = "loop"
    /\ Cardinality(unique) < ipCount
    /\ genIP' \in gen
    /\ pc' = "check"
    /\ UNCHANGED <<prog, config, gen, unique, results, pinged, topN, scannerVars>>

\* if unique[ip] { continue }
ScanIPsSeen ==
    /\ prog = "ips" /\ pc = "check"
    /\ genIP \in unique
    /\ genIP' = <<>>
    /\ pc' = "loop"
    /\ UNCHANGED <<prog, config, gen, unique, results, pinged, topN, scannerVars>>

\* an iteration that does not look the address up in unique
ScanIPsNewUnchecked ==
    /\ prog = "ips" /\ pc = "check"
    /\ unique' = unique \cup {genIP}
    /\ pinged' = Append(pinged, genIP)
    /\ pc' = "ping"
    /\ UNCHANGED <<prog, config, gen, results, genIP, topN, scannerVars>>

\* !unique[ip]: unique[ip] = true; tcpPing(ip, port) is called
ScanIPsNew ==
    /\ prog = "ips" /\ pc = "check"
    /\ genIP \notin unique
    /\ unique' = unique \cup {genIP}
    /\ pinged' = Append(pinged, genIP)
    /\ pc' = "ping"
    /\ UNCHANGED <<prog, config, gen, results, genIP, topN, scannerVars>>

\* tcpPing: net.DialTimeout fails; return 0, err
ScanIPsPingErr ==
    /\ prog = "ips" /\ pc = "ping"
    /\ genIP' = <<>>
    /\ pc' = "loop"
    /\ UNCHANGED <<prog, config, gen, unique, results, pinged, topN, scannerVars>>

\* tcpPing: conn.Close(); return time.Since(start), nil;
\* results = append(results, Endpoint{IP: ip, Latency: lat})
ScanIPsPingOk ==
    /\ prog = "ips" /\ pc = "ping"
    /\ \E lat \in Latencies : results' = Append(results, [IP |-> genIP, Latency |-> lat])
    /\ genIP' = <<>>
    /\ pc' = "loop"
    /\ UNCHANGED <<prog, config, gen, unique, pinged, topN, scannerVars>>

\* len(unique) >= ipCount: sort.Slice(results, by Latency); the "Top results"
\* listing (kept in topN.tcp)
ScanIPsEnd ==
    /\ prog = "ips" /\ pc = "loop"
    /\ Cardinality(unique) >= ipCount
    /\ results' \in sortSlice(results)
    /\ topN' = [topN EXCEPT !.tcp = TopLoop(results', 0, topLimit)]
    /\ pc' = "done"
    /\ UNCHANGED <<prog, config, gen, unique, genIP, pinged, scannerVars>>

NextScanIPs ==
    \/ ScanIPsGen
    \/ ScanIPsSeen
    \/ ScanIPsNew
    \/ ScanIPsPingErr
    \/ ScanIPsPingOk
    \/ ScanIPsEnd

\* gen() returns an address that is not in unique yet
ScanIPsGenFresh == ScanIPsGen /\ genIP' \notin unique

\* scanIPs with a scheduler that lets it run and a generator whose random
\* choice is fair: an address that can be drawn again and again is drawn
ScanIPsFairSpec ==
    ScanIPsInit /\ [][NextScanIPs]_vars /\ WF_vars(NextScanIPs) /\ SF_vars(ScanIPsGenFresh)

\* ------------------------------------------------------------ properties
\* probes that have started and not yet returned: probeEndpoint returns with
\* its deferred wg.Done(); a worker probes from the receipt of a job until its
\* result is sent or dropped
InFlightSem ==
    Cardinality({g \in DOMAIN gs :
        gs[g].pc \in {"dial", "write", "read", "send", "connclose", "wgdone"}})

InFlightPool ==
    Cardinality({w \in DOMAIN gs : gs[w].pc \in {"dial", "connclose", "send"}})

\* main is past wg.Wait() / portWg.Wait()
AfterWait ==
    pc \in {"close", "aggregate", "sortudp", "sorttcp", "report",
            "collectorwait", "check", "rankudp", "done"}

\* the ranking is over
Ranked == pc \in {"report", "done"}

\* the network results with which a probe reports the candidate
SuccessOf(job) ==
    IF SemProg /\ job.Protocol = "udp" THEN {"answered"} ELSE {"connected"}

\* r is a result for candidate c
ResultFor(c, r) == r.Endpoint = Endpoint(c) /\ r.Protocol = c.Protocol

\* every result that exists: in the channel, in the collector's hands, collected
Collected == tcpResults \o udpResults

AllResults ==
    resultsChan \o (IF collector.pc = "append" THEN <<collector.result>> ELSE <<>>) \o Collected

Entries(c, s) == Cardinality({k \in DOMAIN s : ResultFor(c, s[k])})

\* number of probes of candidate c whose last network result is in S
ProbesWith(c, S) == Cardinality({j \in DOMAIN allJobs : allJobs[j] = c /\ outcome[j] \in S})

\* number of dials made for the triple c, over all its places in allJobs
RECURSIVE SumDials(_)
SumDials(js) ==
    IF js = {} THEN 0
    ELSE LET j == CHOOSE x \in js : TRUE IN dials[j] + SumDials(js \ {j})

DialsOf(c) == SumDials({j \in DOMAIN allJobs : allJobs[j] = c})

IsSorted(s) == \A k \in 1..(Len(s) - 1) : Key(s[k]) <= Key(s[k + 1])

IsPermutation(a, b) ==
    /\ Len(a) = Len(b)
    /\ \A x \in Range(a) \cup Range(b) :
         Cardinality({k \in DOMAIN a : a[k] = x}) = Cardinality({k \in DOMAIN b : b[k] = x})

\* the stable ascending sort: each element goes behind the elements that are
\* not greater
StableInsert(x, t) ==
    LET p == Cardinality({k \in DOMAIN t : Key(t[k]) <= Key(x)})
    IN SubSeq(t, 1, p) \o <<x>> \o SubSeq(t, p + 1, Len(t))

RECURSIVE StableSort(_)
StableSort(s) ==
    IF s = <<>> THEN <<>>
    ELSE StableInsert(s[Len(s)], StableSort(SubSeq(s, 1, Len(s) - 1)))

\* C1: in the semaphore-guarded scans at most concurrencyLimit probes, and in
\* the worker-pool scan at most numWorkers probes, have started and not yet
\* returned
C1_BoundedInFlight ==
    /\ SemProg => InFlightSem <= concurrencyLimit
    /\ prog = "pool" => InFlightPool <= numWorkers

\* the limit is reached while candidates are still to be submitted
C1_Witness ==
    /\ SemProg /\ pc = "spawn"
    /\ idx < Len(allJobs)
    /\ InFlightSem = concurrencyLimit

\* C2: once wg.Wait() has returned, every spawned probe has finished: every
\* candidate has been submitted and dialled, no goroutine is between its dial
\* and its wg.Done(), and every worker has left its loop; the ping phase of
\* the ping + port scan is a barrier in the same way
C2_Barrier ==
    /\ AfterWait =>
         /\ idx = Len(allJobs)
         /\ \A j \in DOMAIN allJobs : outcome[j] # "none"
         /\ \A g \in DOMAIN gs : gs[g].pc \in {"release", "exit"}
    /\ (prog = "scan" /\ pc \notin {"gen", "pingwait"}) =>
         \A g \in DOMAIN allIPs : gs[g].pc = "exit"

\* main has just passed wg.Wait() after probes that failed and probes that
\* succeeded
C2_Witness ==
    /\ pc = "close"
    /\ \E j \in DOMAIN allJobs : outcome[j] \in SuccessOf(allJobs[j])
    /\ \E j \in DOMAIN allJobs : outcome[j] \notin SuccessOf(allJobs[j])

\* C3: in the worker-pool scan every candidate (address, port, protocol) is
\* dialled at most once, and exactly once by the time the workers have
\* finished
C3_ProbedExactlyOnce ==
    prog = "pool" =>
        \A j \in DOMAIN allJobs :
            /\ DialsOf(allJobs[j]) <= 1
            /\ AfterWait => DialsOf(allJobs[j]) = 1

\* what the job feed does guarantee: every place of allJobs is dialled at
\* most once, and exactly once by the time the workers have finished
JobsDialledOnce ==
    prog = "pool" =>
        \A j \in DOMAIN allJobs :
            /\ dials[j] <= 1
            /\ AfterWait => dials[j] = 1

\* C4: probeEndpoint with protocol udp sends a result only after a successful
\* read of the handshake response: a probe about to send has had its read
\* succeed, and a candidate has no more results than probes whose read
\* succeeded (none after a failed dial, write or read)
C4_UdpNeedsResponse ==
    SemProg =>
        /\ \A g \in DOMAIN gs :
             (gs[g].pc = "send" /\ allJobs[gs[g].job].Protocol = "udp")
                 => outcome[gs[g].job] = "answered"
        /\ \A j \in DOMAIN allJobs :
             allJobs[j].Protocol = "udp"
                 => Entries(allJobs[j], AllResults) <= ProbesWith(allJobs[j], {"answered"})

\* the scan is over, a udp probe connected and then failed its write or its
\* read, and no udp result exists
C4_Witness ==
    /\ SemProg /\ pc = "report"
    /\ \E j \in DOMAIN allJobs :
         /\ allJobs[j].Protocol = "udp"
         /\ outcome[j] \in {"writeerr", "readerr"}
    /\ udpResults = <<>>

\* C5: in the ping + port scan a udp candidate has no more results than probes
\* whose handshake was answered (scanPort sends no handshake, so: none)
C5_UdpNeedsResponse ==
    prog = "scan" =>
        \A j \in DOMAIN allJobs :
            allJobs[j].Protocol = "udp"
                => Entries(allJobs[j], AllResults) <= ProbesWith(allJobs[j], {"answered"})

\* C6: a candidate has no more results than probes of it that succeeded, so a
\* failed dial yields none; and after wg.Wait() every candidate has been
\* dialled, whatever failed before it
C6_FailuresDropped ==
    /\ \A j \in DOMAIN allJobs :
         Entries(allJobs[j], AllResults) <= ProbesWith(allJobs[j], SuccessOf(allJobs[j]))
    /\ AfterWait => \A j \in DOMAIN allJobs : dials[j] >= 1

\* the results are collected, an earlier candidate's dial failed and a later
\* candidate is among the results
C6_Witness ==
    /\ Ranked
    /\ \E i, j \in DOMAIN allJobs :
         /\ i < j
         /\ outcome[i] = "dialerr"
         /\ Entries(allJobs[i], Collected) = 0
         /\ Entries(allJobs[j], Collected) = 1

\* C7: in the worker-pool scan, when main is past collectorWg.Wait() the
\* collector has left its loop and the two slices hold exactly one entry per
\* successful probe
C7_CollectedBeforeRanking ==
    (prog = "pool" /\ pc \in {"check", "rankudp", "done"}) =>
        /\ collector.pc = "exit"
        /\ Len(Collected) = Cardinality({j \in DOMAIN allJobs : outcome[j] = "connected"})
        /\ \A j \in DOMAIN allJobs :
             Entries(allJobs[j], Collected) = ProbesWith(allJobs[j], {"connected"})

\* main is about to rank two or more results, and a probe failed
C7_Witness ==
    /\ prog = "pool" /\ pc = "check"
    /\ Len(tcpResults) >= 2
    /\ \E j \in DOMAIN allJobs : outcome[j] = "dialerr"

\* C8: after ranking each protocol's results are the collected results of that
\* protocol, reordered so that latency never decreases; the first one has the
\* least latency
C8_RankedAscending ==
    Ranked =>
        /\ IsSorted(tcpResults) /\ IsSorted(udpResults)
        /\ IsPermutation(tcpResults, discovered.tcp)
        /\ IsPermutation(udpResults, discovered.udp)
        /\ \A k \in DOMAIN tcpResults : tcpResults[1].Latency <= tcpResults[k].Latency
        /\ \A k \in DOMAIN udpResults : udpResults[1].Latency <= udpResults[k].Latency

\* the ranking has moved a result that was received later to the front
C8_Witness ==
    /\ Ranked
    /\ Len(tcpResults) >= 2
    /\ tcpResults # discovered.tcp
    /\ tcpResults[1].Latency < tcpResults[2].Latency

\* C9: after ranking each protocol's results are the stable sort of the
\* results in the order they were received
C9_RankedStable ==
    Ranked =>
        /\ tcpResults = StableSort(discovered.tcp)
        /\ udpResults = StableSort(discovered.udp)

\* C10: no two candidates submitted in a run are the same (address, port,
\* protocol)
C10_NoDuplicateCandidates ==
    \A i, j \in DOMAIN allJobs : i # j => allJobs[i] # allJobs[j]

\* C11: in the worker-pool scan the seed address is among the candidates, and
\* every job for the seed address is queued to the workers before any job for
\* a sampled address
C11_SeedFirst ==
    (prog = "pool" /\ pc \notin {"gen", "start"}) =>
        /\ \E j \in DOMAIN allJobs : allJobs[j].IP = SeedIP
        /\ \A i \in 1..idx :
             allJobs[i].IP # SeedIP
                 => \A j \in DOMAIN allJobs : allJobs[j].IP = SeedIP => j < i

\* the seed address is among the candidates
SeedIsCandidate ==
    (prog = "pool" /\ pc \notin {"gen", "start"}) =>
        \E j \in DOMAIN allJobs : allJobs[j].IP = SeedIP

\* the collection of a protocol
ResultsOf(p) == IF p = "tcp" THEN tcpResults ELSE udpResults

Min(a, b) == IF a < b THEN a ELSE b

\* C12: element 0 of an empty collection is never indexed, and when the run
\* has ended the report of a protocol is "none found" exactly when its
\* collection is empty, and is the first ranked result otherwise
C12_EmptyIsNoneFound ==
    \A p \in {"tcp", "udp"} :
        /\ bestEndpoint[p].status # "panic"
        /\ pc = "done" =>
             /\ ResultsOf(p) = <<>> <=> bestEndpoint[p] = NoneFound
             /\ ResultsOf(p) # <<>> =>
                  bestEndpoint[p] = [status |-> "ok", value |-> <<ResultsOf(p)[1]>>]

\* the semaphore-guarded scan has ended with a tcp endpoint and no udp endpoint
C12_Witness ==
    /\ prog = "probe" /\ pc = "done"
    /\ udpResults = <<>> /\ bestEndpoint.udp = NoneFound
    /\ tcpResults # <<>>

OpenConns == Cardinality({g \in DOMAIN gs : gs[g].conn = "open"})

\* the probe of goroutine g is past its last use of a connection: a probe at
\* its wg.Done() or behind it, a worker between two jobs
ProbeOver(g) ==
    \/ gs[g].pc \in {"wgdone", "release", "exit"}
    \/ prog = "pool" /\ gs[g].pc = "recv"

\* C14: a probe that is over has no open connection, a probe at its wg.Done()
\* whose dial succeeded has closed its connection, and once wg.Wait() has
\* returned no connection is open
C14_ConnectionsClosed ==
    /\ \A g \in DOMAIN gs :
         /\ ProbeOver(g) => gs[g].conn # "open"
         /\ (SemProg /\ gs[g].pc = "wgdone" /\ outcome[gs[g].job] # "dialerr")
                => gs[g].conn = "closed"
         /\ (~SemProg /\ gs[g].pc = "send") => gs[g].conn = "closed"
    /\ AfterWait => OpenConns = 0

\* a udp probe whose read failed is at its wg.Done() with its connection closed
C14_Witness ==
    /\ SemProg
    /\ \E g \in DOMAIN gs :
         /\ gs[g].pc = "wgdone"
         /\ outcome[gs[g].job] = "readerr"
         /\ gs[g].conn = "closed"

\* the scanPort invocations that have started and not yet returned
InFlightScan ==
    Cardinality({g \in DOMAIN gs : gs[g].pc \in {"dial", "send", "wgdone"}})

\* C15: in the port-scan phase of the ping + port scan the number of scanPort
\* invocations in flight is at most the size of the pool, concurrencyLimit,
\* whatever the number of candidates
C15_ScanPortPool ==
    prog = "scan" => InFlightScan <= concurrencyLimit

\* C16: the latency a udp probe of probeEndpoint stores in its result is the
\* time its handshake took, from just before the write to just after the read
C16_UdpLatencyIsHandshake ==
    SemProg =>
        \A g \in DOMAIN gs :
            (gs[g].pc = "send" /\ allJobs[gs[g].job].Protocol = "udp")
                => gs[g].lat = gs[g].rtt

\* main has received every result
Aggregated ==
    \/ SemProg /\ pc \in {"sortudp", "sorttcp", "report", "done"}
    \/ RankProg /\ pc \in {"check", "rankudp", "done"}

\* C17: every entry of tcpResults has protocol tcp and every entry of
\* udpResults has protocol udp; once main has received every result, each
\* successful probe has its one entry in the collection of its protocol and
\* none in the other
C17_PartitionedByProtocol ==
    /\ \A k \in DOMAIN tcpResults : tcpResults[k].Protocol = "tcp"
    /\ \A k \in DOMAIN udpResults : udpResults[k].Protocol = "udp"
    /\ Aggregated =>
         /\ \A j \in DOMAIN allJobs :
              /\ Entries(allJobs[j], ResultsOf(allJobs[j].Protocol))
                     = ProbesWith(allJobs[j], SuccessOf(allJobs[j]))
              /\ Entries(allJobs[j], Collected)
                     = Entries(allJobs[j], ResultsOf(allJobs[j].Protocol))
         /\ Len(Collected) =
                Cardinality({j \in DOMAIN allJobs : outcome[j] \in SuccessOf(allJobs[j])})

\* the ping + port scan has received results of both protocols
C17_Witness ==
    /\ prog = "scan" /\ Aggregated
    /\ tcpResults # <<>> /\ udpResults # <<>>

\* the configuration has a zero concurrency limit or no port
Malformed == config.limit = 0 \/ config.ports = <<>>

C19_CompNeverStuck ==
    (prog = "comp" /\ ~Malformed) => (pc = "done" \/ ENABLED Next)

\* the worker-pool scan has ended: every job was fed, every worker and the
\* collector have returned, and main is past collectorWg.Wait() and the ranking
PoolDone ==
    /\ pc = "done"
    /\ idx = Len(allJobs)
    /\ jobsClosed /\ closed
    /\ \A w \in DOMAIN gs : gs[w].pc = "exit"
    /\ collector.pc = "exit"
    /\ wg = 0 /\ collectorWg = 0

\* C20: the worker-pool scan with at least one worker always comes to its end,
\* whatever the number of jobs and whichever dials succeed
C20_PoolTerminates == (prog = "pool" /\ config.limit >= 1) ~> PoolDone

\* the scan has ended after more jobs than workers, with successes and failures
C20_Witness ==
    /\ prog = "pool" /\ PoolDone
    /\ Len(allJobs) > config.limit
    /\ config.limit >= 1
    /\ \E j \in DOMAIN allJobs : outcome[j] = "connected"
    /\ \E j \in DOMAIN allJobs : outcome[j] = "dialerr"

\* goroutine g has a send to the results channel ahead of it: a probe that has
\* not yet sent or given up, a worker that may still take a job
MaySend(g) ==
    \/ SemProg /\ gs[g].pc \in {"dial", "write", "read", "send"}
    \/ prog = "pool" /\ gs[g].pc \in {"recv", "dial", "connclose", "send"}
    \/ prog = "scan" /\ gs[g].pc \in {"dial", "send"}

\* C21: once the results channel is closed no goroutine has a send to it
\* ahead and the wait group is at zero; in the ping phase, once main has closed
\* the ping results channel no ping goroutine has its send ahead
C21_NoSendAfterClose ==
    /\ closed => (wg = 0 /\ \A g \in DOMAIN gs : ~MaySend(g))
    /\ (prog = "scan" /\ pc \notin {"gen", "pingwait"}) =>
         (pingWg = 0 /\ \A g \in DOMAIN gs : gs[g].pc # "ping")

\* the channel is closed after two or more results were sent to it
C21_Witness ==
    /\ closed
    /\ Len(AllResults) >= 2

\* the probes of the comprehensive scan that are past the one increment of
\* their exit path
CountedProbes ==
    Cardinality({g \in DOMAIN gs : gs[g].pc \in {"connclose", "wgdone", "release", "exit"}})

\* C22: in the comprehensive scan the progress counter is the number of probes
\* that have passed the increment of their exit path, whichever path it is; it
\* never exceeds totalJobs and equals totalJobs once wg.Wait() has returned
C22_ProgressCounter ==
    prog = "comp" =>
        /\ progressCounter = CountedProbes
        /\ progressCounter <= Len(allJobs)
        /\ AfterWait => progressCounter = Len(allJobs)

\* wg.Wait() has returned after a dial error, a write or read error and a success
C22_Witness ==
    /\ prog = "comp" /\ pc = "close"
    /\ progressCounter = Len(allJobs) /\ progressCounter > 0
    /\ \E j \in DOMAIN allJobs : outcome[j] = "dialerr"
    /\ \E j \in DOMAIN allJobs : outcome[j] \in {"writeerr", "readerr"}
    /\ \E j \in DOMAIN allJobs : outcome[j] \in {"connected", "answered"}

\* the capacity of the results channel in the programs that size it by the
\* number of candidates
SizedCapacity == IF prog = "scan" THEN EndpointResultsCapacity ELSE ResultsCapacity

\* C23: in the semaphore-guarded scan and the ping + port scan the results
\* channel never holds more than its capacity, a probe that is about to send
\* finds room in it, and the results sent and the sends still ahead are no
\* more than the candidates; a ping goroutine finds room in the ping channel
C23_SendNeverBlocks ==
    prog \in {"probe", "scan"} =>
        /\ Len(resultsChan) <= SizedCapacity
        /\ \A g \in DOMAIN gs :
             /\ gs[g].pc = "send" => (Len(resultsChan) < SizedCapacity /\ ~closed)
             /\ gs[g].pc = "ping" => Len(pingResultsChan) < Len(allIPs)
        /\ Len(AllResults) + Cardinality({g \in DOMAIN gs : MaySend(g)}) <= Len(allJobs)

\* a probe of the semaphore-guarded scan is about to send while an earlier
\* result is still in the channel
C23_Witness ==
    /\ prog = "probe"
    /\ resultsChan # <<>>
    /\ \E g \in DOMAIN gs : gs[g].pc = "send"

\* the ping goroutines of the ping + port scan, and its port probes
Pingers == {g \in DOMAIN gs : g <= Len(allIPs)}
PortProbes == {g \in DOMAIN gs : g > Len(allIPs)}

\* the ping results of the goroutines whose ping succeeded
Answered == {PingResult(allIPs[g], gs[g].rtt) : g \in {h \in Pingers : gs[h].rtt > 0}}

\* the addresses handed to the port scan
ProbedIPs == {allJobs[k].IP : k \in DOMAIN allJobs}

\* C24: in the ping + port scan a port probe exists only when every ping
\* goroutine has finished; when no address answered there is no port probe at
\* all; the addresses of the port probes are addresses whose ping succeeded,
\* they are the first scanLimit entries of the ping results and no entry left
\* out has a lower RTT than one taken
C24_PingGatesPortScan ==
    prog = "scan" =>
        /\ (PortProbes # {} \/ allJobs # <<>>) =>
             (pingWg = 0 /\ \A g \in Pingers : gs[g].pc = "exit")
        /\ (pc \notin {"gen", "pingwait"} /\ bestIPs = <<>>) =>
             (allJobs = <<>> /\ PortProbes = {} /\ resultsChan = <<>>)
        /\ pc \notin {"gen", "pingwait"} => Range(bestIPs) = Answered
        /\ allJobs # <<>> =>
             /\ ProbedIPs = {bestIPs[i].IP : i \in 1..scanLimit(bestIPs)}
             /\ ProbedIPs \subseteq {r.IP : r \in Answered}
             /\ Cardinality(ProbedIPs) <= scanLimitMax
             /\ \A i \in 1..scanLimit(bestIPs) : \A j \in (scanLimit(bestIPs) + 1)..Len(bestIPs) :
                  bestIPs[i].RTT <= bestIPs[j].RTT
        /\ \A g \in PortProbes : allJobs[gs[g].job].IP \in ProbedIPs

\* a port probe is dialling, one ping failed or was slower, and the address
\* with the higher RTT was left out by the limit
C24_Witness ==
    /\ prog = "scan"
    /\ \E g \in PortProbes : gs[g].pc = "dial"
    /\ Len(bestIPs) > scanLimit(bestIPs)
    /\ bestIPs[1].RTT < bestIPs[Len(bestIPs)].RTT

\* the position of the first occurrence of x in s
FirstIndex(s, x) == CHOOSE i \in DOMAIN s : s[i] = x /\ \A j \in 1..(i - 1) : s[j] # x

\* C25: the list generateIPv4Addresses returns has no address twice, holds
\* exactly the addresses that were sampled, and holds them in the order of
\* their first occurrence among the samples
C25_Deduplicated ==
    (prog = "pool" /\ pc = "return") =>
        /\ \A i, j \in DOMAIN allIPs : i # j => allIPs[i] # allIPs[j]
        /\ Range(allIPs) = Range(sampled)
        /\ \A i, j \in DOMAIN allIPs :
             i < j => FirstIndex(sampled, allIPs[i]) < FirstIndex(sampled, allIPs[j])
        /\ allIPs \in generateUniqueIPv4Addresses(GenSamples)

\* the generator has returned two addresses from samples in which the first
\* address came again after the second
C25_Witness ==
    /\ prog = "pool" /\ pc = "return"
    /\ Len(allIPs) = 2
    /\ \E i, j, k \in DOMAIN sampled :
         i < j /\ j < k /\ sampled[i] = sampled[k] /\ sampled[i] # sampled[j]

\* the state part of C26
ScanIPsSafe ==
    prog = "ips" =>
        /\ gs = <<>>
        /\ pc = "ping" => (genIP \in unique /\ pinged[Len(pinged)] = genIP)
        /\ \A i, j \in DOMAIN pinged : i # j => pinged[i] # pinged[j]
        /\ Range(pinged) = unique
        /\ Len(pinged) <= ipCount
        /\ Len(results) <= Len(pinged)
        /\ pc = "done" =>
             /\ Len(pinged) = ipCount
             /\ Cardinality(unique) = ipCount
             /\ Cardinality(gen) >= ipCount

\* the generator of scanIPs can return ipCount distinct addresses
ScanIPsCanEnd == prog = "ips" /\ Cardinality(gen) >= ipCount

\* C26: scanIPs runs no goroutine, so it has one tcpPing in flight at most; it
\* passes no address to tcpPing twice; when its loop has ended it has probed
\* exactly ipCount distinct addresses, which its generator must be able to
\* return; and with such a generator and a fair random choice the loop ends
C26_ScanIPs == []ScanIPsSafe /\ (ScanIPsCanEnd ~> (pc = "done"))

\* the loop has ended on a generator with more values than ipCount, after a
\* ping that failed and one that succeeded
C26_Witness ==
    /\ prog = "ips" /\ pc = "done"
    /\ Cardinality(gen) > ipCount
    /\ results # <<>>
    /\ Len(results) < Len(pinged)

\* C27: a udp probe of probeEndpoint that has read the response has spent no
\* more than one timeout on its dial, its write and its read together
C27_WithinOneTimeout ==
    prog = "probe" =>
        \A g \in DOMAIN gs :
            (gs[g].pc = "send" /\ allJobs[gs[g].job].Protocol = "udp")
                => gs[g].lat + gs[g].rtt <= Timeout

====
